---- MODULE Spec2Model ----
(***************************************************************************)
(* A model of src/src/btree.rs: the B-tree node layer (Node) and the tree  *)
(* orchestration (BTree) of a paged row store.  Cell and page indices are  *)
(* 0-based as in the source; a Vec is a TLA+ sequence, so cell i of the    *)
(* source is element i + 1 of the sequence.  An Option is a sequence of    *)
(* length 0 (None) or 1 (Some).                                            *)
(***************************************************************************)
EXTENDS Integers, Sequences, FiniteSets, TLC

VARIABLES pages, root, found, key, last, fresh, protocol, inserts, panicked,
          node, out

vars == <<pages, root, found, key, last, fresh, protocol, inserts, panicked,
          node, out>>

treeVars == <<pages, root, found, key, last, fresh, protocol, inserts, panicked>>

(***************************************************************************)
(* Bounds of the model and constants of the program.                       *)
(***************************************************************************)

\* Keys a caller looks up and inserts are 1 .. MaxKey.
MaxKey == 13

\* Calls of BTree::insert in one session of the general specification.
MaxInserts == 2

\* The capacity of a leaf: the literal 12 of the source.
MAX_CELLS == 12

\* usize::MAX, the page number of the full-leaf sentinel.  Only its being
\* larger than every page count matters; the value here is the largest
\* integer the model's arithmetic holds.
USIZE_MAX == 2147483647

Keys == 1 .. MaxKey

\* What a row holds besides its id: two payloads tell two rows of one id apart.
Datas == {1, 2}

(***************************************************************************)
(* Values.                                                                 *)
(***************************************************************************)

None == << >>

Some(x) == << x >>

\* crate::Row, of which the tree reads only the id; data stands for the rest.
Row(id, data) == [id |-> id, data |-> data]

KeyValuePair(k, v) == [key |-> k, value |-> v]

CursorNew(page_num, cell_num, end_of_table) ==
    [page_num |-> page_num, cell_num |-> cell_num, end_of_table |-> end_of_table]

(***************************************************************************)
(* Node.                                                                   *)
(***************************************************************************)

NodeLeaf ==
    [is_root |-> FALSE, node_type |-> "Leaf", cells |-> << >>,
     parent_offset |-> None, num_cells |-> 0, page_num |-> 0]

NodeLeafWithChildren(children) ==
    [is_root |-> FALSE, node_type |-> "Leaf", cells |-> children,
     parent_offset |-> None, num_cells |-> Len(children), page_num |-> 0]

NodeInternal ==
    [is_root |-> FALSE, node_type |-> "Internal", cells |-> << >>,
     parent_offset |-> None, num_cells |-> 0, page_num |-> 0]

\* Node::get: the cell at cell_num of a leaf, None out of range or on an
\* internal node.
NodeGet(self, cell_num) ==
    IF self.node_type = "Leaf" /\ cell_num < Len(self.cells)
    THEN Some(self.cells[cell_num + 1])
    ELSE None

\* Vec::insert(index, element); the caller has checked index <= len.
VecInsert(v, index, element) ==
    SubSeq(v, 1, index) \o << element >> \o SubSeq(v, index + 1, Len(v))

\* Node::insert with the cell pushed at the end instead of placed at cell_num.
NodeInsertPush(self, cell_num, k, value) ==
    IF self.node_type # "Leaf"
    THEN [ok |-> FALSE, node |-> self, panic |-> TRUE]
    ELSE IF Len(self.cells) >= 12
    THEN [ok |-> FALSE, node |-> self, panic |-> FALSE]
    ELSE [ok |-> TRUE,
          node |-> [self EXCEPT
                      !.cells = Append(self.cells, KeyValuePair(k, value)),
                      !.num_cells = self.num_cells + 1],
          panic |-> FALSE]

\* Node::insert with the cell written over the one at cell_num instead of
\* shifting it.
NodeInsertOverwrites(self, cell_num, k, value) ==
    IF self.node_type # "Leaf"
    THEN [ok |-> FALSE, node |-> self, panic |-> TRUE]
    ELSE IF Len(self.cells) >= 12
    THEN [ok |-> FALSE, node |-> self, panic |-> FALSE]
    ELSE IF cell_num > Len(self.cells)
    THEN [ok |-> FALSE, node |-> self, panic |-> TRUE]
    ELSE [ok |-> TRUE,
          node |-> [self EXCEPT
                      !.cells = SubSeq(self.cells, 1, cell_num)
                                  \o << KeyValuePair(k, value) >>
                                  \o SubSeq(self.cells, cell_num + 2,
                                            Len(self.cells)),
                      !.num_cells = self.num_cells + 1],
          panic |-> FALSE]

\* Node::insert: [ok, node, panic].  Vec::insert panics when the index is
\* past the length, and the internal arm is todo!().
NodeInsert(self, cell_num, k, value) ==
    IF self.node_type # "Leaf"
    THEN [ok |-> FALSE, node |-> self, panic |-> TRUE]
    ELSE IF Len(self.cells) >= 12
    THEN [ok |-> FALSE, node |-> self, panic |-> FALSE]
    ELSE IF cell_num > Len(self.cells)
    THEN [ok |-> FALSE, node |-> self, panic |-> TRUE]
    ELSE [ok |-> TRUE,
          node |-> [self EXCEPT
                      !.cells = VecInsert(self.cells, cell_num,
                                          KeyValuePair(k, value)),
                      !.num_cells = self.num_cells + 1],
          panic |-> FALSE]

\* The halving loop of slice::binary_search_by on cells[left .. right) when no
\* cell compares Equal: Less moves left past the middle, Greater moves right
\* to it, and the loop ends with the index returned in Err.
RECURSIVE BinarySearchLoop(_, _, _, _)
BinarySearchLoop(cells, k, left, right) ==
    IF left >= right
    THEN left
    ELSE LET mid == left + (right - left) \div 2
         IN  IF cells[mid + 1].key < k
             THEN BinarySearchLoop(cells, k, mid + 1, right)
             ELSE BinarySearchLoop(cells, k, left, mid)

\* slice::binary_search_by(|kv| kv.key.cmp(&key)) on cells sorted by key: the
\* set of results the library may return.  With several matches any one of
\* them may be returned; without a match the result is what the halving loop
\* ends with.
BinarySearchBy(cells, k) ==
    LET hits == {i \in 0 .. Len(cells) - 1 : cells[i + 1].key = k}
    IN  IF hits # {}
        THEN {[tag |-> "Ok", index |-> i] : i \in hits}
        ELSE {[tag |-> "Err", index |-> BinarySearchLoop(cells, k, 0, Len(cells))]}

\* Node::find with the full-leaf result carrying the node's own page number.
NodeFindSentinelOwnPage(self, k) ==
    IF self.node_type # "Leaf"
    THEN {[tag |-> "Panic", page_num |-> 0, cell_num |-> 0]}
    ELSE IF self.num_cells >= 12
    THEN {[tag |-> "Err", page_num |-> self.page_num, cell_num |-> 0]}
    ELSE {[tag |-> r.tag, page_num |-> self.page_num, cell_num |-> r.index] :
            r \in BinarySearchBy(self.cells, k)}

\* Node::find: the set of results [tag, page_num, cell_num]; tag "Panic" is
\* the todo!() of the internal arm.
NodeFind(self, k) ==
    IF self.node_type # "Leaf"
    THEN {[tag |-> "Panic", page_num |-> 0, cell_num |-> 0]}
    ELSE IF self.num_cells >= 12
    THEN {[tag |-> "Err", page_num |-> USIZE_MAX, cell_num |-> 0]}
    ELSE {[tag |-> r.tag, page_num |-> self.page_num, cell_num |-> r.index] :
            r \in BinarySearchBy(self.cells, k)}

\* Node::split with the cell at the split point lost: the new leaf starts one
\* cell late.
NodeSplitDropsCell(self, new_page_num) ==
    IF self.node_type # "Leaf"
    THEN [self |-> self, new_node |-> NodeInternal, panic |-> TRUE]
    ELSE LET at == Len(self.cells) \div 2
             upper == SubSeq(self.cells, at + 2, Len(self.cells))
         IN  [self |-> [self EXCEPT !.cells = SubSeq(self.cells, 1, at)],
              new_node |-> [NodeLeafWithChildren(upper) EXCEPT
                              !.page_num = new_page_num],
              panic |-> FALSE]

\* Node::split with the split point rounded up instead of down.
NodeSplitRoundsUp(self, new_page_num) ==
    IF self.node_type # "Leaf"
    THEN [self |-> self, new_node |-> NodeInternal, panic |-> TRUE]
    ELSE LET at == (Len(self.cells) + 1) \div 2
             upper == SubSeq(self.cells, at + 1, Len(self.cells))
         IN  [self |-> [self EXCEPT !.cells = SubSeq(self.cells, 1, at)],
              new_node |-> [NodeLeafWithChildren(upper) EXCEPT
                              !.page_num = new_page_num],
              panic |-> FALSE]

\* Node::split: [self, new_node, panic].  self keeps cells[0 .. len/2) and its
\* num_cells is not written; the new leaf takes cells[len/2 ..).
NodeSplit(self, new_page_num) ==
    IF self.node_type # "Leaf"
    THEN [self |-> self, new_node |-> NodeInternal, panic |-> TRUE]
    ELSE LET at == Len(self.cells) \div 2
             upper == SubSeq(self.cells, at + 1, Len(self.cells))
         IN  [self |-> [self EXCEPT !.cells = SubSeq(self.cells, 1, at)],
              new_node |-> [NodeLeafWithChildren(upper) EXCEPT
                              !.page_num = new_page_num],
              panic |-> FALSE]

(***************************************************************************)
(* Pager: the page store, a dense sequence of committed nodes; page n is   *)
(* element n + 1.                                                          *)
(***************************************************************************)

PagerNumPages(store) == Len(store)

\* Pager::get_page: [node, fault].  A committed page decodes to what was
\* committed; the first unused index gives a fresh leaf of that page number;
\* an index past it is outside the store.
PagerGetPage(store, page_num) ==
    IF page_num < Len(store)
    THEN [node |-> store[page_num + 1], fault |-> FALSE]
    ELSE IF page_num = Len(store)
    THEN [node |-> [NodeLeaf EXCEPT !.page_num = page_num], fault |-> FALSE]
    ELSE [node |-> NodeLeaf, fault |-> TRUE]

\* Pager::commit_page: writes the node at its page_num.
PagerCommitPage(store, n) ==
    IF n.page_num < Len(store)
    THEN [store EXCEPT ![n.page_num + 1] = n]
    ELSE Append(store, n)

\* Pager::close: flushes; what was committed is what a later session reads.
PagerClose(store) == store

(***************************************************************************)
(* BTree.                                                                  *)
(***************************************************************************)

\* BTree::new with the fresh root committed before it is marked as root.
BTreeNewCommitsUnmarked(store) ==
    IF PagerNumPages(store) = 0
    THEN LET got == PagerGetPage(store, 0).node
         IN  [root |-> [got EXCEPT !.is_root = TRUE],
              pages |-> PagerCommitPage(store, got)]
    ELSE [root |-> PagerGetPage(store, 0).node, pages |-> store]

\* BTree::new with the node cached as it was loaded, before it is marked.
BTreeNewCachesUnmarked(store) ==
    IF PagerNumPages(store) = 0
    THEN LET got == PagerGetPage(store, 0).node
         IN  [root |-> got,
              pages |-> PagerCommitPage(store, [got EXCEPT !.is_root = TRUE])]
    ELSE [root |-> PagerGetPage(store, 0).node, pages |-> store]

\* BTree::new: [root, pages].
BTreeNew(store) ==
    IF PagerNumPages(store) = 0
    THEN LET root_node == [PagerGetPage(store, 0).node EXCEPT !.is_root = TRUE]
         IN  [root |-> root_node, pages |-> PagerCommitPage(store, root_node)]
    ELSE [root |-> PagerGetPage(store, 0).node, pages |-> store]

\* BTree::get: [row, panic]; the unwrap panics when the cell does not exist.
BTreeGet(store, page_num, cell_num) ==
    LET got == PagerGetPage(store, page_num)
        cell == NodeGet(got.node, cell_num)
    IN  IF got.fault \/ cell = None
        THEN [row |-> Row(0, 0), panic |-> TRUE]
        ELSE [row |-> cell[1].value, panic |-> FALSE]

\* BTree::find: the set of results [tag, cursor].
BTreeFind(r, store, k) ==
    {[tag |-> f.tag,
      cursor |-> CursorNew(f.page_num, f.cell_num,
                           PagerNumPages(store) = f.page_num /\ f.cell_num >= 12)] :
       f \in NodeFind(r, k)}

\* BTree::insert with the overflow branch placing the cell in the node it
\* loaded and committing it, without using the halves of the split.
BTreeInsertCommitsFull(store, r, cursor, value) ==
    LET got == PagerGetPage(store, cursor.page_num)
        n == got.node
        full == [n EXCEPT !.cells = VecInsert(n.cells, cursor.cell_num,
                                              KeyValuePair(value.id, value)),
                          !.num_cells = n.num_cells + 1]
    IN  IF got.fault
        THEN [ret |-> FALSE, panic |-> TRUE, pages |-> store, root |-> r,
              node |-> n, new_node |-> None]
        ELSE IF n.num_cells >= 12
        THEN [ret |-> TRUE, panic |-> FALSE,
              pages |-> PagerCommitPage(store, full),
              root |-> IF full.is_root THEN full ELSE r,
              node |-> full, new_node |-> None]
        ELSE LET i == NodeInsert(n, cursor.cell_num, value.id, value)
             IN  IF i.panic
                 THEN [ret |-> FALSE, panic |-> TRUE, pages |-> store,
                       root |-> r, node |-> n, new_node |-> None]
                 ELSE IF i.ok
                 THEN [ret |-> TRUE, panic |-> FALSE,
                       pages |-> PagerCommitPage(store, i.node),
                       root |-> IF i.node.is_root THEN i.node ELSE r,
                       node |-> i.node, new_node |-> None]
                 ELSE [ret |-> FALSE, panic |-> FALSE, pages |-> store,
                       root |-> r, node |-> i.node, new_node |-> None]

\* BTree::insert without the refresh of the cached root.
BTreeInsertKeepsRoot(store, r, cursor, value) ==
    LET got == PagerGetPage(store, cursor.page_num)
        n == got.node
    IN  IF got.fault
        THEN [ret |-> FALSE, panic |-> TRUE, pages |-> store, root |-> r,
              node |-> n, new_node |-> None]
        ELSE IF n.num_cells >= 12
        THEN LET s == NodeSplit(n, PagerNumPages(store))
             IN  [ret |-> FALSE, panic |-> s.panic, pages |-> store,
                  root |-> r, node |-> s.self, new_node |-> Some(s.new_node)]
        ELSE LET i == NodeInsert(n, cursor.cell_num, value.id, value)
             IN  IF i.panic
                 THEN [ret |-> FALSE, panic |-> TRUE, pages |-> store,
                       root |-> r, node |-> n, new_node |-> None]
                 ELSE IF i.ok
                 THEN [ret |-> TRUE, panic |-> FALSE,
                       pages |-> PagerCommitPage(store, i.node),
                       root |-> r,
                       node |-> i.node, new_node |-> None]
                 ELSE [ret |-> FALSE, panic |-> FALSE, pages |-> store,
                       root |-> r, node |-> i.node, new_node |-> None]

\* BTree::insert with the overflow branch committing the lower half of the
\* split.
BTreeInsertCommitsLower(store, r, cursor, value) ==
    LET got == PagerGetPage(store, cursor.page_num)
        n == got.node
    IN  IF got.fault
        THEN [ret |-> FALSE, panic |-> TRUE, pages |-> store, root |-> r,
              node |-> n, new_node |-> None]
        ELSE IF n.num_cells >= 12
        THEN LET s == NodeSplit(n, PagerNumPages(store))
             IN  [ret |-> FALSE, panic |-> s.panic, pages |-> PagerCommitPage(store, s.self),
                  root |-> r, node |-> s.self, new_node |-> Some(s.new_node)]
        ELSE LET i == NodeInsert(n, cursor.cell_num, value.id, value)
             IN  IF i.panic
                 THEN [ret |-> FALSE, panic |-> TRUE, pages |-> store,
                       root |-> r, node |-> n, new_node |-> None]
                 ELSE IF i.ok
                 THEN [ret |-> TRUE, panic |-> FALSE,
                       pages |-> PagerCommitPage(store, i.node),
                       root |-> IF i.node.is_root THEN i.node ELSE r,
                       node |-> i.node, new_node |-> None]
                 ELSE [ret |-> FALSE, panic |-> FALSE, pages |-> store,
                       root |-> r, node |-> i.node, new_node |-> None]

\* BTree::insert with the overflow branch committing the new sibling of the
\* split.
BTreeInsertCommitsSibling(store, r, cursor, value) ==
    LET got == PagerGetPage(store, cursor.page_num)
        n == got.node
    IN  IF got.fault
        THEN [ret |-> FALSE, panic |-> TRUE, pages |-> store, root |-> r,
              node |-> n, new_node |-> None]
        ELSE IF n.num_cells >= 12
        THEN LET s == NodeSplit(n, PagerNumPages(store))
             IN  [ret |-> FALSE, panic |-> s.panic, pages |-> PagerCommitPage(store, s.new_node),
                  root |-> r, node |-> s.self, new_node |-> Some(s.new_node)]
        ELSE LET i == NodeInsert(n, cursor.cell_num, value.id, value)
             IN  IF i.panic
                 THEN [ret |-> FALSE, panic |-> TRUE, pages |-> store,
                       root |-> r, node |-> n, new_node |-> None]
                 ELSE IF i.ok
                 THEN [ret |-> TRUE, panic |-> FALSE,
                       pages |-> PagerCommitPage(store, i.node),
                       root |-> IF i.node.is_root THEN i.node ELSE r,
                       node |-> i.node, new_node |-> None]
                 ELSE [ret |-> FALSE, panic |-> FALSE, pages |-> store,
                       root |-> r, node |-> i.node, new_node |-> None]

\* BTree::insert: [ret, panic, pages, root, node, new_node]; node and new_node
\* are the locals of the call when it returns.
BTreeInsert(store, r, cursor, value) ==
    LET got == PagerGetPage(store, cursor.page_num)
        n == got.node
    IN  IF got.fault
        THEN [ret |-> FALSE, panic |-> TRUE, pages |-> store, root |-> r,
              node |-> n, new_node |-> None]
        ELSE IF n.num_cells >= 12
        THEN LET s == NodeSplit(n, PagerNumPages(store))
             IN  [ret |-> FALSE, panic |-> s.panic, pages |-> store, root |-> r,
                  node |-> s.self, new_node |-> Some(s.new_node)]
        ELSE LET i == NodeInsert(n, cursor.cell_num, value.id, value)
             IN  IF i.panic
                 THEN [ret |-> FALSE, panic |-> TRUE, pages |-> store,
                       root |-> r, node |-> n, new_node |-> None]
                 ELSE IF i.ok
                 THEN [ret |-> TRUE, panic |-> FALSE,
                       pages |-> PagerCommitPage(store, i.node),
                       root |-> IF i.node.is_root THEN i.node ELSE r,
                       node |-> i.node, new_node |-> None]
                 ELSE [ret |-> FALSE, panic |-> FALSE, pages |-> store,
                       root |-> r, node |-> i.node, new_node |-> None]

(***************************************************************************)
(* The tree and its caller.  found is the result of the caller's last      *)
(* BTree::find and key the key it looked up; the caller inserts the row    *)
(* of that key at that cursor.  last describes the last call.  fresh says  *)
(* that no insert has been made since found was returned, protocol that    *)
(* every insert so far used a fresh miss, inserts counts the inserts.      *)
(* last.before and last.cached are the store and the cached root before    *)
(* the last insert or close.                                               *)
(***************************************************************************)

NoCursor == [tag |-> "None", cursor |-> CursorNew(0, 0, FALSE)]

NoCall == [op |-> "new", ret |-> FALSE, row |-> Row(0, 0), fresh |-> FALSE,
           before |-> << >>, cached |-> NodeLeaf]

NoFound == [tag |-> "None", page_num |-> 0, cell_num |-> 0]

NoOut == [op |-> "none", self |-> NodeLeaf, new_node |-> NodeLeaf, k |-> 0,
          cell_num |-> 0, res |-> NoFound, ret |-> FALSE]

\* The leaf an earlier session leaves at page 0 after inserting 1 .. n in
\* ascending order.
StoredRoot(n) ==
    [is_root |-> TRUE, node_type |-> "Leaf",
     cells |-> [i \in 1 .. n |-> KeyValuePair(i, Row(i, 1))],
     parent_offset |-> None, num_cells |-> n, page_num |-> 0]

\* The stores a session opens: the empty one, and those an earlier session
\* filled to within MaxInserts cells of the capacity.
Stores ==
    {<< >>} \cup {<< StoredRoot(n) >> : n \in (MAX_CELLS - MaxInserts) .. MAX_CELLS}

TreeInit(store) ==
    LET t == BTreeNew(store)
    IN  /\ pages = t.pages
        /\ root = t.root
        /\ found = NoCursor
        /\ key = 0
        /\ last = NoCall
        /\ fresh = FALSE
        /\ protocol = TRUE
        /\ inserts = 0
        /\ panicked = FALSE

Init ==
    /\ \E store \in Stores : TreeInit(store)
    /\ node = NodeLeaf
    /\ out = NoOut

Find(k) ==
    /\ ~panicked
    /\ last.op # "close"
    /\ \E f \in BTreeFind(root, pages, k) :
         /\ found' = [tag |-> f.tag, cursor |-> f.cursor]
         /\ panicked' = (f.tag = "Panic")
    /\ key' = k
    /\ fresh' = TRUE
    /\ last' = [NoCall EXCEPT !.op = "find"]
    /\ UNCHANGED <<pages, root, protocol, inserts, node, out>>

Insert(d) ==
    /\ ~panicked
    /\ last.op # "close"
    /\ found.tag \in {"Ok", "Err"}
    /\ LET c == BTreeInsert(pages, root, found.cursor, Row(key, d))
       IN  /\ pages' = c.pages
           /\ root' = c.root
           /\ panicked' = c.panic
           /\ last' = [op |-> "insert", ret |-> c.ret, row |-> Row(key, d),
                       fresh |-> fresh, before |-> pages, cached |-> root]
    /\ fresh' = FALSE
    /\ protocol' = (protocol /\ fresh /\ found.tag = "Err")
    /\ inserts' = inserts + 1
    /\ UNCHANGED <<found, key, node, out>>

\* BTree::close: the session ends, and with it the cursors the caller holds.
Close ==
    /\ ~panicked
    /\ last.op # "close"
    /\ pages' = PagerClose(pages)
    /\ last' = [NoCall EXCEPT !.op = "close", !.before = pages, !.cached = root]
    /\ found' = NoCursor
    /\ key' = 0
    /\ fresh' = FALSE
    /\ UNCHANGED <<root, protocol, inserts, panicked, node, out>>

\* BTree::new over the store a closed session left.
Reopen ==
    /\ last.op = "close"
    /\ LET t == BTreeNew(pages)
       IN  pages' = t.pages /\ root' = t.root
    /\ last' = [last EXCEPT !.op = "reopen"]
    /\ UNCHANGED <<found, key, fresh, protocol, inserts, panicked, node, out>>

\* A session of the general caller: any lookups, and at most MaxInserts
\* inserts of the row looked up last, at the cursor that lookup returned;
\* sessions end by close and the next one opens the same store.
CallFind(k) == Find(k)

CallInsert(d) == inserts < MaxInserts /\ Insert(d)

Next ==
    \/ \E k \in Keys : CallFind(k)
    \/ \E d \in Datas : CallInsert(d)
    \/ Close
    \/ Reopen

Spec == Init /\ [][Next]_vars

(***************************************************************************)
(* The ascending fill: on a fresh store the caller inserts the keys 1, 2,  *)
(* ... in this order, each by a find miss followed by an insert at the     *)
(* cursor of the miss, and looks up the keys inserted so far in between.   *)
(***************************************************************************)

AscInit ==
    /\ TreeInit(<< >>)
    /\ node = NodeLeaf
    /\ out = NoOut

AscFind(k) == k <= inserts + 1 /\ Find(k)

AscInsert(d) == fresh /\ key = inserts + 1 /\ found.tag = "Err" /\ Insert(d)

AscNext ==
    \/ \E k \in Keys : AscFind(k)
    \/ \E d \in Datas : AscInsert(d)

SpecAsc == AscInit /\ [][AscNext]_vars

(***************************************************************************)
(* The disciplined caller: on a fresh store it looks up any keys, and      *)
(* inserts a key only at the cursor of the miss it has just got for it.    *)
(***************************************************************************)

ProtoFind(k) == Find(k)

ProtoInsert == fresh /\ found.tag = "Err" /\ Insert(1)

ProtoNext ==
    \/ \E k \in Keys : ProtoFind(k)
    \/ ProtoInsert

SpecProto == AscInit /\ [][ProtoNext]_vars

(***************************************************************************)
(* The node operations on their own: a sorted leaf drawn from the keys,    *)
(* and one call applied to it, or to the lower half a split of it leaves.  *)
(* node is the leaf before the last call, out what the call leaves.        *)
(***************************************************************************)

RECURSIVE SortedSeq(_)
SortedSeq(S) ==
    IF S = {} THEN << >>
    ELSE LET m == CHOOSE x \in S : \A y \in S : x <= y
         IN  << m >> \o SortedSeq(S \ {m})

DataOf(k, shift) == IF (k + shift) % 2 = 0 THEN 1 ELSE 2

\* A leaf holding the keys of S in order, as Node::insert builds it.
LeafOf(S, shift) ==
    LET ks == SortedSeq(S)
    IN  [is_root |-> TRUE, node_type |-> "Leaf",
         cells |-> [i \in 1 .. Len(ks) |->
                      KeyValuePair(ks[i], Row(ks[i], DataOf(ks[i], shift)))],
         parent_offset |-> None, num_cells |-> Len(ks), page_num |-> 0]

NodeInit ==
    /\ TreeInit(<< >>)
    /\ \E S \in SUBSET Keys : \E shift \in {0, 1} :
         /\ Cardinality(S) <= MAX_CELLS
         /\ node = [LeafOf(S, shift) EXCEPT !.page_num = shift,
                                            !.is_root = (shift = 0)]
    /\ out = NoOut

SplitStep(new_page_num) ==
    /\ out.op = "none"
    /\ LET s == NodeSplit(node, new_page_num)
       IN  out' = [NoOut EXCEPT !.op = "split", !.self = s.self,
                                !.new_node = s.new_node]
    /\ UNCHANGED <<node, treeVars>>

FindStep(k) ==
    /\ out.op = "none"
    /\ \E r \in NodeFind(node, k) :
         out' = [NoOut EXCEPT !.op = "find", !.self = node, !.k = k, !.res = r]
    /\ UNCHANGED <<node, treeVars>>

\* Node::insert of a key the leaf does not hold, at the index that keeps the
\* cells in order.
InsertStep(k) ==
    /\ out.op = "none"
    /\ k \notin {node.cells[i].key : i \in 1 .. Len(node.cells)}
    /\ LET cell_num == BinarySearchLoop(node.cells, k, 0, Len(node.cells))
           i == NodeInsert(node, cell_num, k, Row(k, 1))
       IN  out' = [NoOut EXCEPT !.op = "insert", !.self = i.node, !.k = k,
                                !.cell_num = cell_num, !.ret = i.ok]
    /\ UNCHANGED <<node, treeVars>>

\* The lower half BTree::insert holds after it split a full leaf, looked up
\* in and inserted into as the drawn leaves are.
SplitFindStep(k) ==
    /\ out.op = "split"
    /\ Len(node.cells) = MAX_CELLS
    /\ node' = out.self
    /\ \E r \in NodeFind(out.self, k) :
         out' = [NoOut EXCEPT !.op = "find", !.self = out.self, !.k = k,
                              !.res = r]
    /\ UNCHANGED treeVars

SplitInsertStep(k) ==
    /\ out.op = "split"
    /\ Len(node.cells) = MAX_CELLS
    /\ k \notin {out.self.cells[i].key : i \in 1 .. Len(out.self.cells)}
    /\ node' = out.self
    /\ LET cell_num == BinarySearchLoop(out.self.cells, k, 0, Len(out.self.cells))
           i == NodeInsert(out.self, cell_num, k, Row(k, 1))
       IN  out' = [NoOut EXCEPT !.op = "insert", !.self = i.node, !.k = k,
                                !.cell_num = cell_num, !.ret = i.ok]
    /\ UNCHANGED treeVars

NodeNext ==
    \/ \E new_page_num \in {1, 2} : SplitStep(new_page_num)
    \/ \E k \in Keys : FindStep(k)
    \/ \E k \in Keys : InsertStep(k)
    \/ \E k \in Keys : SplitFindStep(k)
    \/ \E k \in Keys : SplitInsertStep(k)

SpecNode == NodeInit /\ [][NodeNext]_vars

(***************************************************************************)
(* Properties.                                                             *)
(***************************************************************************)

KeysOf(cells) == {cells[i].key : i \in 1 .. Len(cells)}

\* The keys of the cells of a node, in order.
KeySeq(n) == [i \in 1 .. Len(n.cells) |-> n.cells[i].key]

StrictlyIncreasing(cells) ==
    \A i \in 1 .. Len(cells) - 1 : cells[i].key < cells[i + 1].key

\* The committed node the caller's cursor was aimed at, before the last call.
TargetBefore == PagerGetPage(last.before, found.cursor.page_num)

\* The last call was an insert of the caller's key at a fresh miss, as were all
\* inserts before it.
InsertedByProtocol == last.op = "insert" /\ last.fresh /\ protocol

\* C1: on a fresh tree, after a key is added by a find miss followed by a
\* successful insert at the cursor of the miss (as every key before it was),
\* find of that key returns Ok on the page of the insert's cursor, and get at
\* the returned cursor gives the row inserted.
C1_FindInsertRoundTrip ==
    (InsertedByProtocol /\ last.ret) =>
        \A f \in BTreeFind(root, pages, key) :
            /\ f.tag = "Ok"
            /\ f.cursor.page_num = found.cursor.page_num
            /\ BTreeGet(pages, f.cursor.page_num, f.cursor.cell_num)
                 = [row |-> last.row, panic |-> FALSE]

\* C2: as long as every insert used the position of a find miss for the key
\* inserted, the cells of every committed leaf, and of the cached root, are
\* strictly increasing by key.
C2_Ordering ==
    protocol =>
        /\ \A p \in 1 .. Len(pages) : StrictlyIncreasing(pages[p].cells)
        /\ StrictlyIncreasing(root.cells)

\* A key was inserted by the protocol in front of a key already stored.
C2_Witness ==
    /\ InsertedByProtocol /\ last.ret
    /\ Len(pages[1].cells) >= 2
    /\ found.cursor.cell_num < Len(pages[1].cells) - 1
    /\ pages[1].cells[found.cursor.cell_num + 1].key = key

\* C3: an insert at the cursor of a find hit for the row's key is rejected or
\* changes nothing: the leaf holds the key once, with the row it held before,
\* and its keys stay strictly increasing.
C3_DuplicateRejected ==
    (last.op = "insert" /\ last.fresh /\ found.tag = "Ok") =>
        LET was == TargetBefore.node.cells
            now == PagerGetPage(pages, found.cursor.page_num).node.cells
        IN  /\ Cardinality({i \in 1 .. Len(now) : now[i].key = key}) = 1
            /\ \A i \in 1 .. Len(was) : was[i].key = key =>
                 \E j \in 1 .. Len(now) : now[j] = was[i]
            /\ StrictlyIncreasing(now)

\* C4: an insert of a new key, made by find and insert while the leaf holds
\* MAX_CELLS cells, returns true, and the store then holds two leaves that
\* split the MAX_CELLS + 1 keys between them in order, the row among them.
C4_OverflowRecovered ==
    (/\ last.op = "insert"
     /\ last.fresh
     /\ Len(last.before[1].cells) = MAX_CELLS
     /\ key \notin KeysOf(last.before[1].cells)) =>
        /\ last.ret
        /\ ~panicked
        /\ \E a, b \in 1 .. Len(pages) :
             /\ a # b
             /\ pages[a].node_type = "Leaf" /\ Len(pages[a].cells) <= MAX_CELLS
             /\ pages[b].node_type = "Leaf" /\ Len(pages[b].cells) <= MAX_CELLS
             /\ KeySeq(pages[a]) \o KeySeq(pages[b])
                  = SortedSeq(KeysOf(last.before[1].cells) \cup {key})
             /\ \E i \in 1 .. Len(pages[a].cells \o pages[b].cells) :
                  (pages[a].cells \o pages[b].cells)[i]
                     = KeyValuePair(key, last.row)

\* C5: after MAX_CELLS + 1 ascending keys were inserted into a fresh tree,
\* each by find then insert, the root is an internal node and the store holds
\* two leaves whose keys, one after the other, are 1 .. MAX_CELLS + 1.
C5_HeightGrowth ==
    (last.op = "insert" /\ inserts = MAX_CELLS + 1) =>
        /\ root.node_type = "Internal"
        /\ \E a, b \in 1 .. Len(pages) :
             /\ a # b
             /\ pages[a].node_type = "Leaf"
             /\ pages[b].node_type = "Leaf"
             /\ KeySeq(pages[a]) \o KeySeq(pages[b])
                  = [i \in 1 .. MAX_CELLS + 1 |-> i]
             /\ Cardinality({p \in 1 .. Len(pages) :
                               pages[p].node_type = "Leaf"}) = 2

\* C6: a find of a key stored in the tree returns Ok with the index of a cell
\* that holds the key.
C6_StoredKeyFound ==
    (last.op = "find" /\ \E p \in 1 .. Len(pages) : key \in KeysOf(pages[p].cells)) =>
        /\ found.tag = "Ok"
        /\ LET cell == NodeGet(PagerGetPage(pages, found.cursor.page_num).node,
                               found.cursor.cell_num)
           IN  cell # None /\ cell[1].key = key

\* The last page of the store is full and the key looked up is larger than
\* every key in it: its position is past the last cell of that page.
PastFullLastPage ==
    LET n == pages[Len(pages)]
    IN  /\ Len(n.cells) = MAX_CELLS
        /\ \A k \in KeysOf(n.cells) : k < key

\* C7: the cursor a find returns has end_of_table exactly when the position
\* of the key is past the last cell of the last page and that page is full;
\* then the cursor is at cell MAX_CELLS.
C7_EndOfTable ==
    last.op = "find" =>
        /\ found.cursor.end_of_table = PastFullLastPage
        /\ found.cursor.end_of_table => found.cursor.cell_num = MAX_CELLS

\* C8: every committed node, and the cached root, holds at most 12 cells.
C8_Capacity ==
    /\ \A p \in 1 .. Len(pages) :
         pages[p].num_cells <= 12 /\ Len(pages[p].cells) <= 12
    /\ root.num_cells <= 12 /\ Len(root.cells) <= 12

\* An insert was aimed at a page of 12 cells and refused.
C8_Witness ==
    /\ last.op = "insert"
    /\ ~last.ret
    /\ ~panicked
    /\ found.cursor.page_num = 0
    /\ pages[1].num_cells = 12

\* C9: split leaves in self and in the returned leaf two sequences whose
\* concatenation is the cell sequence before the split, every key of self
\* below every key of the returned leaf; of 12 cells each gets 6.
C9_SplitPartitions ==
    out.op = "split" =>
        /\ out.self.cells \o out.new_node.cells = node.cells
        /\ \A a \in KeysOf(out.self.cells) :
             \A b \in KeysOf(out.new_node.cells) : a < b
        /\ Len(node.cells) = MAX_CELLS =>
             Len(out.self.cells) = 6 /\ Len(out.new_node.cells) = 6

\* A full leaf was split.
C9_Witness == out.op = "split" /\ Len(node.cells) = MAX_CELLS

\* C10 as stated: of an odd number of cells, self keeps one more than the
\* returned leaf gets.
C10_LowerGetsExtra ==
    (out.op = "split" /\ Len(node.cells) % 2 = 1) =>
        Len(out.self.cells) = Len(out.new_node.cells) + 1

\* C10 as amended: of an odd number of cells, the returned leaf gets one more
\* than self keeps.
C10_UpperGetsExtra ==
    (out.op = "split" /\ Len(node.cells) % 2 = 1) =>
        Len(out.new_node.cells) = Len(out.self.cells) + 1

\* A leaf of an odd number of cells, more than one, was split.
C10_Witness ==
    out.op = "split" /\ Len(node.cells) % 2 = 1 /\ Len(node.cells) >= 3

\* C11: exactly one committed node is marked as root; it is the node at
\* page 0 and has no parent.
C11_RootInvariant ==
    /\ Cardinality({p \in 1 .. Len(pages) : pages[p].is_root}) = 1
    /\ pages[1].is_root
    /\ pages[1].parent_offset = None
    /\ pages[1].page_num = 0

\* A session that inserted was closed and its store opened again.
C11_Witness ==
    last.op = "reopen" /\ inserts >= 1 /\ pages[1].is_root

\* C12: after close and a new BTree over the same store, find of every key
\* stored before the close gives the results it gave just before the close.
C12_DurabilityRoundTrip ==
    last.op = "reopen" =>
        \A k \in Keys :
            (\E p \in 1 .. Len(last.before) : k \in KeysOf(last.before[p].cells)) =>
                BTreeFind(root, pages, k) = BTreeFind(last.cached, last.before, k)

\* A store was reopened whose leaf holds a key inserted since the tree was
\* created.
C12_Witness ==
    /\ last.op = "reopen"
    /\ inserts >= 1
    /\ Len(last.before[1].cells) >= 1
    /\ Len(pages[1].cells) < MAX_CELLS

\* C13: num_cells is the length of the cells of a leaf made by Node::leaf and
\* Node::leaf_with_children, of a leaf after Node::insert, and of both leaves
\* after Node::split.
C13_CellCount ==
    /\ NodeLeaf.num_cells = Len(NodeLeaf.cells)
    /\ NodeLeafWithChildren(node.cells).num_cells = Len(node.cells)
    /\ out.op = "insert" => out.self.num_cells = Len(out.self.cells)
    /\ out.op = "split" =>
         /\ out.new_node.num_cells = Len(out.new_node.cells)
         /\ out.self.num_cells = Len(out.self.cells)

\* C14: after BTree::new and after every BTree::insert the cached root is the
\* node committed at page 0.
C14_RootCacheCoherence ==
    last.op \in {"new", "reopen", "insert"} => root = PagerGetPage(pages, 0).node

\* An insert changed page 0.
C14_Witness ==
    last.op = "insert" /\ last.ret /\ pages # last.before /\ root # last.cached

\* C15: on a leaf of fewer than MAX_CELLS cells, find of a key it does not
\* hold returns Err with the page number of the node and the number of cells
\* of smaller key, and the cells with the key placed there are in order.
C15_InsertionPoint ==
    (/\ out.op = "find"
     /\ Len(node.cells) < MAX_CELLS
     /\ StrictlyIncreasing(node.cells)
     /\ out.k \notin KeysOf(node.cells)) =>
        /\ out.res = [tag |-> "Err", page_num |-> node.page_num,
                      cell_num |-> Cardinality({i \in 1 .. Len(node.cells) :
                                                  node.cells[i].key < out.k})]
        /\ out.res.cell_num <= Len(node.cells)
        /\ StrictlyIncreasing(VecInsert(node.cells, out.res.cell_num,
                                        KeyValuePair(out.k, Row(out.k, 1))))

\* C16: find of a key a leaf does not hold returns Err((usize::MAX, 0)) when
\* the leaf holds MAX_CELLS cells, and otherwise an Err with the page number
\* of the node, which is not usize::MAX.
C16_FullLeafSentinel ==
    (out.op = "find" /\ out.k \notin KeysOf(node.cells)) =>
        IF node.num_cells = MAX_CELLS
        THEN out.res = [tag |-> "Err", page_num |-> USIZE_MAX, cell_num |-> 0]
        ELSE /\ out.res.tag = "Err"
             /\ out.res.page_num = node.page_num
             /\ out.res.page_num # USIZE_MAX

\* A key was looked up in a full leaf that does not hold it.
C16_Witness ==
    /\ out.op = "find"
    /\ node.num_cells = MAX_CELLS
    /\ out.k \notin KeysOf(node.cells)

\* C17: Node::insert on a leaf whose num_cells is MAX_CELLS returns false and
\* leaves the node as it was; on a leaf of fewer cells it returns true and
\* num_cells and the cells grow by one.
C17_NodeInsertCapacity ==
    out.op = "insert" =>
        IF node.num_cells >= MAX_CELLS
        THEN ~out.ret /\ out.self = node
        ELSE /\ out.ret
             /\ out.self.num_cells = node.num_cells + 1
             /\ Len(out.self.cells) = Len(node.cells) + 1

\* The page the last insert's cursor was aimed at is in the store and held 12
\* cells or more.
AimedAtFullPage ==
    /\ last.op = "insert"
    /\ found.cursor.page_num < Len(last.before)
    /\ last.before[found.cursor.page_num + 1].num_cells >= 12

\* C18: an insert aimed at a page of 12 cells returns false and leaves the
\* store and the cached root as they were.
C18_FailedInsertNoEffect ==
    AimedAtFullPage =>
        /\ ~last.ret
        /\ pages = last.before
        /\ root = last.cached

\* An insert was aimed at a committed page of 12 cells.
C18_Witness == AimedAtFullPage /\ ~panicked

\* C19: after an insert that returned true, the cells of the target page are
\* those before the call with the cell of the row placed at cursor.cell_num,
\* and no other page has changed.
C19_SuccessfulInsertAdds ==
    (last.op = "insert" /\ last.ret) =>
        LET t == found.cursor.page_num
            c == found.cursor.cell_num
            was == PagerGetPage(last.before, t).node.cells
            now == PagerGetPage(pages, t).node.cells
        IN  /\ Len(now) = Len(was) + 1
            /\ c <= Len(was)
            /\ now[c + 1] = KeyValuePair(last.row.id, last.row)
            /\ \A i \in 1 .. Len(was) :
                 now[IF i <= c THEN i ELSE i + 1] = was[i]
            /\ \A p \in 1 .. Len(last.before) :
                 p # t + 1 => (p <= Len(pages) /\ pages[p] = last.before[p])
            /\ Len(pages) = IF t < Len(last.before)
                            THEN Len(last.before) ELSE Len(last.before) + 1

\* A row was inserted between two cells.
C19_Witness ==
    /\ last.op = "insert"
    /\ last.ret
    /\ found.cursor.cell_num > 0
    /\ found.cursor.cell_num < Len(last.before[1].cells)

\* C20: the store holds one page, a leaf at page 0 of at most 12 cells, and
\* no insert made while it holds 12 cells returns true.
C20_StoreNeverGrows ==
    /\ Len(pages) = 1
    /\ pages[1].node_type = "Leaf"
    /\ pages[1].page_num = 0
    /\ Len(pages[1].cells) <= 12
    /\ (last.op = "insert" /\ Len(last.before[1].cells) = 12) => ~last.ret

\* An insert was made at the cursor find returns on the full leaf.
C20_Witness ==
    /\ last.op = "insert"
    /\ Len(last.before[1].cells) = 12
    /\ found.cursor.page_num = USIZE_MAX

====
